---- MODULE Spec2Model ----
(***************************************************************************)
(* Model of the sensor ingestion / aggregation function app               *)
(* (src/function_app.py): four trigger handlers -- generate_http,         *)
(* stats_http, generate_timer, stats_sql_trigger -- running as concurrent *)
(* invocations against one SQL table, SensorReadings.                     *)
(*                                                                         *)
(* Numbers.  The metrics are Python floats and SQL floats: IEEE doubles,  *)
(* 53 significant bits, round to nearest, ties to even.  A double is      *)
(* written as its count of 2^-53 units, which it is a whole number of     *)
(* when it is 1/2 or more, as every value here is; the count is kept in   *)
(* limbs, an integer of the checker being too narrow for it.              *)
(*                                                                         *)
(* Store.  pyodbc connections are opened with autocommit off: the INSERTs *)
(* of one invocation form one transaction, made visible by conn.commit()  *)
(* and rolled back by conn.close().  A SELECT reads committed rows only   *)
(* (read committed), scanning the table in an order the engine chooses.   *)
(* connect, execute and commit may each fail; a failed commit commits     *)
(* nothing.                                                                *)
(***************************************************************************)
EXTENDS Integers, Naturals, Sequences, FiniteSets, TLC

\* ------------------------------------------------------------------ bounds
MaxInvocations == 2   \* trigger invocations in one behaviour
MaxConcurrent == 2    \* invocations in flight at the same time
MaxIngest == 2        \* ingestions into a table that starts empty
MaxPrior == 1         \* batches the table may hold when the behaviour starts
MaxSeed == 1          \* states of the random source an invocation may start from
MaxCount == 21        \* batch sizes a caller of the generator may want
MaxGenSeed == 12      \* states of the random source the generator is followed from
MaxRows == 3          \* rows of a table the statistics are computed on
MaxSensorId == 3      \* sensor ids in such a table
Epoch == 98           \* the clock's reading, in ticks, when the first batch was made
MaxLevels == 2        \* concurrency levels of WORKLOADS the load test is followed through

\* ------------------------------------------------------- program constants
DblBits == 53         \* significant bits of a float (an IEEE double)
FracBits == DblBits   \* a float is written as a count of 2^-FracBits units
LimbBits == 15        \* and the count in limbs of LimbBits bits
num_sensors == 20     \* generate_sensor_readings: num_sensors
SENSORS_PER_READING == 20   \* parallel_test.py
WORKLOADS ==
    <<1, 2, 5, 10, 20, 30, 40, 50, 75, 100, 150, 200, 250, 300, 350, 400, 500, 650, 700>>

\* --------------------------------------------------------------- numbers
\* A float is a double, written as its count of 2^-FracBits units.  Such a
\* count needs more bits than an integer here has: it is written in limbs
\* of LimbBits bits, least significant first, without leading zero limbs
\* (zero is the empty sequence).
Base == 2 ^ LimbBits

RECURSIVE BigOf(_)
BigOf(n) == IF n = 0 THEN <<>> ELSE <<n % Base>> \o BigOf(n \div Base)

Limb(a, k) == IF k <= Len(a) THEN a[k] ELSE 0

RECURSIVE Trim(_)
Trim(a) ==
    IF a = <<>> \/ a[Len(a)] # 0 THEN a ELSE Trim(SubSeq(a, 1, Len(a) - 1))

\* a + b: limb k and upward, with carry c into limb k; acc is the sum below
RECURSIVE BigAddFrom(_, _, _, _, _)
BigAddFrom(a, b, k, c, acc) ==
    IF k > Len(a) /\ k > Len(b)
    THEN IF c = 0 THEN acc ELSE Append(acc, c)
    ELSE BigAddFrom(a, b, k + 1, (Limb(a, k) + Limb(b, k) + c) \div Base,
                    Append(acc, (Limb(a, k) + Limb(b, k) + c) % Base))

BigAdd(a, b) == BigAddFrom(a, b, 1, 0, <<>>)

\* a - b, for a >= b: c is the borrow out of limb k
RECURSIVE BigSubFrom(_, _, _, _, _)
BigSubFrom(a, b, k, c, acc) ==
    IF k > Len(a) THEN Trim(acc)
    ELSE IF a[k] - Limb(b, k) - c < 0
         THEN BigSubFrom(a, b, k + 1, 1, Append(acc, a[k] - Limb(b, k) - c + Base))
         ELSE BigSubFrom(a, b, k + 1, 0, Append(acc, a[k] - Limb(b, k) - c))

BigSub(a, b) == BigSubFrom(a, b, 1, 0, <<>>)

\* a * n, for 0 < n < Base
RECURSIVE BigMulFrom(_, _, _, _, _)
BigMulFrom(a, n, k, c, acc) ==
    IF k > Len(a)
    THEN IF c = 0 THEN acc ELSE Append(acc, c)
    ELSE BigMulFrom(a, n, k + 1, (a[k] * n + c) \div Base,
                    Append(acc, (a[k] * n + c) % Base))

BigMulInt(a, n) == IF n = 0 THEN <<>> ELSE BigMulFrom(a, n, 1, 0, <<>>)

\* a * Base^w
ShiftLimbs(a, w) == IF a = <<>> THEN a ELSE [k \in 1 .. w |-> 0] \o a

\* a * b: the limbs of b from limb k upward
RECURSIVE BigMulBy(_, _, _, _)
BigMulBy(a, b, k, acc) ==
    IF k > Len(b) THEN acc
    ELSE BigMulBy(a, b, k + 1, BigAdd(acc, ShiftLimbs(BigMulInt(a, b[k]), k - 1)))

BigMul(a, b) == BigMulBy(a, b, 1, <<>>)

\* a divided by n, 0 < n < Base: the quotient q and the remainder r, from
\* limb k downward
RECURSIVE BigDivFrom(_, _, _, _, _)
BigDivFrom(a, n, k, r, q) ==
    IF k = 0 THEN [q |-> Trim(q), r |-> r]
    ELSE BigDivFrom(a, n, k - 1, (r * Base + a[k]) % n,
                    <<(r * Base + a[k]) \div n>> \o q)

BigDivInt(a, n) == BigDivFrom(a, n, Len(a), 0, <<>>)

\* a < b
RECURSIVE LessFrom(_, _, _)
LessFrom(a, b, k) ==
    IF k = 0 THEN FALSE
    ELSE IF a[k] # b[k] THEN a[k] < b[k] ELSE LessFrom(a, b, k - 1)

Less(a, b) == IF Len(a) # Len(b) THEN Len(a) < Len(b) ELSE LessFrom(a, b, Len(a))
Leq(a, b) == a = b \/ Less(a, b)

\* the number of significant bits
RECURSIVE IntBits(_)
IntBits(n) == IF n = 0 THEN 0 ELSE 1 + IntBits(n \div 2)

BitLen(a) == IF a = <<>> THEN 0 ELSE LimbBits * (Len(a) - 1) + IntBits(a[Len(a)])

\* a * 2^d
Shl(a, d) == ShiftLimbs(BigMulInt(a, 2 ^ (d % LimbBits)), d \div LimbBits)

\* a divided by 2^d: the quotient q, and whether bits were shifted out (s)
Shr(a, d) ==
    IF d \div LimbBits >= Len(a)
    THEN [q |-> <<>>, s |-> a # <<>>]
    ELSE [q |-> BigDivInt(SubSeq(a, d \div LimbBits + 1, Len(a)), 2 ^ (d % LimbBits)).q,
          s |-> \/ BigDivInt(SubSeq(a, d \div LimbBits + 1, Len(a)), 2 ^ (d % LimbBits)).r # 0
                \/ \E k \in 1 .. d \div LimbBits : a[k] # 0]

\* --------------------------------------------------------------- doubles
\* The integer m, halved and rounded to nearest, ties to even; low says
\* that what m stands for was a little more than m.
HalfEven(m, low) ==
    IF BigDivInt(m, 2).r = 1 /\ (low \/ Limb(BigDivInt(m, 2).q, 1) % 2 = 1)
    THEN BigAdd(BigDivInt(m, 2).q, <<1>>)
    ELSE BigDivInt(m, 2).q

\* a rounded to DblBits significant bits, to nearest, ties to even
DblRoundLow(a, low) ==
    IF BitLen(a) <= DblBits THEN a
    ELSE Shl(HalfEven(Shr(a, BitLen(a) - DblBits - 1).q,
                      low \/ Shr(a, BitLen(a) - DblBits - 1).s),
             BitLen(a) - DblBits)

DblRound(a) == DblRoundLow(a, FALSE)

\* x + y, x - y (x >= y) and x * y in doubles
DblAdd(x, y) == DblRound(BigAdd(x, y))
DblSub(x, y) == DblRound(BigSub(x, y))
DblMul(x, y) == Shr(DblRound(BigMul(x, y)), FracBits).q

\* x / n in doubles, n a count
DblDivInt(x, n) ==
    Shr(DblRoundLow(BigDivInt(ShiftLimbs(x, 2), n).q,
                    BigDivInt(ShiftLimbs(x, 2), n).r # 0), 2 * LimbBits).q

\* A float literal n.0
Lit(n) == Shl(BigOf(n), FracBits)

\* ------------------------------------------------------- random source
\* random.random(): the source is a deterministic generator whose state
\* advances by one per draw; a draw is a float k / 2^53 in [0, 1), k made of
\* the scrambled state, that is the count k of units.  The generator's state
\* when an invocation starts is an input (a seed).
LcgLimb(s, j) == ((165 + 2 * j) * s * s + (71 + 4 * j) * s + 29 + 6 * j) % Base

LcgDraw(s) ==
    Trim(<<LcgLimb(s, 0), LcgLimb(s, 1), LcgLimb(s, 2),
           LcgLimb(s, 3) % (2 ^ (DblBits - 3 * LimbBits))>>)

\* the k-th draw (k >= 1) after the source was in state seed
RandomDraw(seed, k) == LcgDraw(seed * 4 * num_sensors + k)

\* Mutant of Uniform: a + b * random()
UniformWide(a, b, r) == DblAdd(Lit(a), DblMul(Lit(b), r))

\* random.uniform(a, b) == a + (b - a) * random(), with draw r
Uniform(a, b, r) == DblAdd(Lit(a), DblMul(DblSub(Lit(b), Lit(a)), r))

\* ---------------------------------------------------------- generator
Seeds == 0 .. MaxSeed

generate_sensor_readings(seed) ==
    [sensor_id \in 1 .. num_sensors |->
        [sensor_id   |-> sensor_id,
         temperature |-> Uniform(5, 18, RandomDraw(seed, 4 * (sensor_id - 1) + 1)),
         wind        |-> Uniform(12, 24, RandomDraw(seed, 4 * (sensor_id - 1) + 2)),
         humidity    |-> Uniform(30, 60, RandomDraw(seed, 4 * (sensor_id - 1) + 3)),
         co2         |-> Uniform(400, 1600, RandomDraw(seed, 4 * (sensor_id - 1) + 4))]]

\* the batch each seed gives
ReadingsOf == [seed \in Seeds |-> generate_sensor_readings(seed)]

\* ------------------------------------------------------------ the store
\* Mutant of InsertRow: the wind and humidity parameters are bound in the
\* wrong order.
InsertRowSwapped(r, ts, i) ==
    [SensorId       |-> r.sensor_id,
     Temperature    |-> r.temperature,
     WindSpeed      |-> r.humidity,
     Humidity       |-> r.wind,
     CO2            |-> r.co2,
     ReadingTimeUtc |-> ts,
     Txn            |-> i]

\* One row of SensorReadings as the INSERT statement writes it.  Txn is not a
\* column: it records which invocation's transaction wrote the row.
InsertRow(r, ts, i) ==
    [SensorId       |-> r.sensor_id,
     Temperature    |-> r.temperature,
     WindSpeed      |-> r.wind,
     Humidity       |-> r.humidity,
     CO2            |-> r.co2,
     ReadingTimeUtc |-> ts,
     Txn            |-> i]

\* Mutant of ExecuteInsert: the connection is in autocommit mode, each row
\* is visible as soon as it is inserted.
ExecuteInsertAutocommit(st, tx, row) == [store |-> Append(st, row), txn |-> tx]

\* Mutant of ExecuteInsert: the statement is executed twice.
ExecuteInsertTwice(st, tx, row) == [store |-> st, txn |-> Append(Append(tx, row), row)]

\* cursor.execute(INSERT ...) on a connection opened with pyodbc's default
\* autocommit=False: the row joins the connection's open transaction.
ExecuteInsert(st, tx, row) == [store |-> st, txn |-> Append(tx, row)]

\* Mutant of ConnCommit: the statement run is an overwrite, the committed
\* batch replaces what the table held.
ConnCommitReplaces(st, tx) == [store |-> tx, txn |-> <<>>]

\* conn.commit(): the open transaction's rows become visible, all at once.
ConnCommit(st, tx) == [store |-> st \o tx, txn |-> <<>>]

\* Mutant of ConnClose: closing commits the open transaction.
ConnCloseCommits(st, tx) == [store |-> st \o tx, txn |-> <<>>]

\* conn.close(): an open transaction is rolled back.
ConnClose(st, tx) == [store |-> st, txn |-> <<>>]

\* The rows a SELECT sees: committed rows only (read committed); pend is the
\* concatenation of the other connections' open transactions.
ReadRows(st, pend) == st

Reverse(tbl) == [k \in 1 .. Len(tbl) |-> tbl[Len(tbl) + 1 - k]]

\* The statistics SELECT puts no order on the rows it aggregates: the
\* engine scans them in an order of its choosing, here as inserted or
\* backwards.
ScanOrders(tbl) == {tbl, Reverse(tbl)}

\* ----------------------------------------------------------- aggregator
RECURSIVE SeqMin(_)
SeqMin(xs) ==
    IF Len(xs) = 1 THEN xs[1]
    ELSE LET m == SeqMin(Tail(xs)) IN IF Leq(xs[1], m) THEN xs[1] ELSE m

RECURSIVE SeqMax(_)
SeqMax(xs) ==
    IF Len(xs) = 1 THEN xs[1]
    ELSE LET m == SeqMax(Tail(xs)) IN IF Leq(m, xs[1]) THEN xs[1] ELSE m

\* SUM over a float column: accumulated in doubles, each addition rounded,
\* in the order the rows are scanned.
RECURSIVE SeqSum(_, _)
SeqSum(acc, xs) ==
    IF xs = <<>> THEN acc ELSE SeqSum(DblAdd(acc, xs[1]), Tail(xs))

\* AVG(col) = SUM(col) / COUNT(col), in doubles: the rounded sum, divided
\* and rounded again
SqlAvg(xs) == DblDivInt(SeqSum(<<>>, xs), Len(xs))

\* GROUP BY SensorId: the rows of one group
GroupRows(tbl, sid) == SelectSeq(tbl, LAMBDA r : r.SensorId = sid)

Column(grp, c) == [j \in 1 .. Len(grp) |-> grp[j][c]]

\* Mutant of OrderBy: ORDER BY SensorId DESC
RECURSIVE OrderByDesc(_)
OrderByDesc(S) ==
    IF S = {} THEN <<>>
    ELSE LET m == CHOOSE x \in S : \A y \in S : x >= y
         IN  <<m>> \o OrderByDesc(S \ {m})

\* ORDER BY SensorId: the distinct ids, ascending
RECURSIVE OrderBy(_)
OrderBy(S) ==
    IF S = {} THEN <<>>
    ELSE LET m == CHOOSE x \in S : \A y \in S : x <= y
         IN  <<m>> \o OrderBy(S \ {m})

SensorIdsOf(tbl) == {tbl[j].SensorId : j \in 1 .. Len(tbl)}

\* Mutant of StatsHttpSelect: the seventh column is AVG(Humidity), copied
\* from below, where AVG(WindSpeed) belongs.
StatsHttpSelectAvgCopied(tbl) ==
    LET ids == OrderBy(SensorIdsOf(tbl))
    IN  [n \in 1 .. Len(ids) |->
            LET g == GroupRows(tbl, ids[n])
            IN  << ids[n],
                   SeqMin(Column(g, "Temperature")), SeqMax(Column(g, "Temperature")),
                   SqlAvg(Column(g, "Temperature")),
                   SeqMin(Column(g, "WindSpeed")), SeqMax(Column(g, "WindSpeed")),
                   SqlAvg(Column(g, "Humidity")),
                   SeqMin(Column(g, "Humidity")), SeqMax(Column(g, "Humidity")),
                   SqlAvg(Column(g, "Humidity")),
                   SeqMin(Column(g, "CO2")), SeqMax(Column(g, "CO2")),
                   SqlAvg(Column(g, "CO2")) >>]

\* stats_http's SELECT: result rows are read by position, r[0] .. r[12]
\* (positions 1 .. 13 here).
StatsHttpSelect(tbl) ==
    LET ids == OrderBy(SensorIdsOf(tbl))
    IN  [n \in 1 .. Len(ids) |->
            LET g == GroupRows(tbl, ids[n])
            IN  << ids[n],
                   SeqMin(Column(g, "Temperature")), SeqMax(Column(g, "Temperature")),
                   SqlAvg(Column(g, "Temperature")),
                   SeqMin(Column(g, "WindSpeed")), SeqMax(Column(g, "WindSpeed")),
                   SqlAvg(Column(g, "WindSpeed")),
                   SeqMin(Column(g, "Humidity")), SeqMax(Column(g, "Humidity")),
                   SqlAvg(Column(g, "Humidity")),
                   SeqMin(Column(g, "CO2")), SeqMax(Column(g, "CO2")),
                   SqlAvg(Column(g, "CO2")) >>]

\* float(x) of a value that is a float already
PyFloat(x) == x

\* data.append({...}): the columns of each result row, by position
StatsHttpData(rs) ==
    [n \in 1 .. Len(rs) |->
        [sensor_id       |-> rs[n][1],
         temperature_min |-> rs[n][2],
         temperature_max |-> rs[n][3],
         temperature_avg |-> PyFloat(rs[n][4]),
         wind_min        |-> rs[n][5],
         wind_max        |-> rs[n][6],
         wind_avg        |-> PyFloat(rs[n][7]),
         humidity_min    |-> rs[n][8],
         humidity_max    |-> rs[n][9],
         humidity_avg    |-> PyFloat(rs[n][10]),
         co2_min         |-> rs[n][11],
         co2_max         |-> rs[n][12],
         co2_avg         |-> PyFloat(rs[n][13])]]

\* stats_sql_trigger's SELECT: result columns are read by alias.
StatsSqlSelect(tbl) ==
    LET ids == OrderBy(SensorIdsOf(tbl))
    IN  [n \in 1 .. Len(ids) |->
            LET g == GroupRows(tbl, ids[n])
            IN  [SensorId    |-> ids[n],
                 MinTemp     |-> SeqMin(Column(g, "Temperature")),
                 MaxTemp     |-> SeqMax(Column(g, "Temperature")),
                 AvgTemp     |-> SqlAvg(Column(g, "Temperature")),
                 MinWind     |-> SeqMin(Column(g, "WindSpeed")),
                 MaxWind     |-> SeqMax(Column(g, "WindSpeed")),
                 AvgWind     |-> SqlAvg(Column(g, "WindSpeed")),
                 MinHumidity |-> SeqMin(Column(g, "Humidity")),
                 MaxHumidity |-> SeqMax(Column(g, "Humidity")),
                 AvgHumidity |-> SqlAvg(Column(g, "Humidity")),
                 MinCO2      |-> SeqMin(Column(g, "CO2")),
                 MaxCO2      |-> SeqMax(Column(g, "CO2")),
                 AvgCO2      |-> SqlAvg(Column(g, "CO2"))]]

StatsSqlResults(rs) ==
    [n \in 1 .. Len(rs) |->
        [sensor_id       |-> rs[n].SensorId,
         temperature_min |-> rs[n].MinTemp,
         temperature_max |-> rs[n].MaxTemp,
         temperature_avg |-> PyFloat(rs[n].AvgTemp),
         wind_min        |-> rs[n].MinWind,
         wind_max        |-> rs[n].MaxWind,
         wind_avg        |-> PyFloat(rs[n].AvgWind),
         humidity_min    |-> rs[n].MinHumidity,
         humidity_max    |-> rs[n].MaxHumidity,
         humidity_avg    |-> PyFloat(rs[n].AvgHumidity),
         co2_min         |-> rs[n].MinCO2,
         co2_max         |-> rs[n].MaxCO2,
         co2_avg         |-> PyFloat(rs[n].AvgCO2)]]

\* ---------------------------------------------------------------- state
VARIABLES
    store,          \* SensorReadings: the committed rows, in insertion order
    committed,      \* the invocations whose transaction committed, in order
    notifications,  \* change notifications raised and not yet delivered
    clock,          \* the UTC clock
    quota,          \* ingestions the host will still trigger
    environ,        \* os.environ: the names that are set
    inv,            \* the trigger invocations: each one's locals and position
    gen,            \* one call of generate_sensor_readings, turn by turn
    test            \* parallel_test.py: the load test's position and tasks

vars == <<store, committed, notifications, clock, quota, environ, inv, gen, test>>

Invs == 1 .. MaxInvocations
ConnVar == "AZURE_SQL_CONNECTIONSTRING"

NoOps == [connect |-> 0, append |-> 0, commit |-> 0, query |-> 0]

\* A response body: the error text of a 500, the JSON object of /generate
\* (inserted, timestamp, readings) or the JSON array of /stats (data).
NoBody == [error |-> "", inserted |-> 0, timestamp |-> <<>>, readings |-> <<>>, data |-> <<>>]

\* utc_timestamp.isoformat(): the reading of the clock written out in
\* decimal digits, most significant first.  The clock is read in ticks.
RECURSIVE isoformat(_)
isoformat(t) == IF t < 10 THEN <<t>> ELSE Append(isoformat(t \div 10), t % 10)

\* An invocation that has not been made yet.
Idle ==
    [kind          |-> "none",
     pc            |-> "idle",
     readings      |-> <<>>,      \* generate_*: readings
     utc_timestamp |-> 0,         \* generate_*: utc_timestamp
     next          |-> 1,         \* generate_*: position of the for loop
     conn          |-> "unbound", \* conn: unbound, open or closed
     txn           |-> <<>>,      \* rows inserted on conn and not committed
     cur           |-> <<>>,      \* stats_*: the result set cur holds
     rows          |-> <<>>,      \* stats_*: rows = cur.fetchall()
     status        |-> 0,         \* status_code of the HttpResponse returned
     body          |-> NoBody,    \* the response's body / the statistics logged
     log           |-> "none",    \* the outcome logged: inserted, stats, error
     escaped       |-> FALSE,     \* an exception left the handler
     fault         |-> "none",    \* which operation raised
     ops           |-> NoOps,     \* store operations attempted (append: runs of the insert loop)
     seen          |-> 0]         \* stats_*: commits that preceded the SELECT

\* generate_sensor_readings is not being followed turn by turn.
GenIdle == [pc |-> "idle", count |-> 0, seed |-> 0, readings |-> <<>>]

\* run_test's results of one concurrency level
NoMetrics == [num_calls |-> 0, success_count |-> 0, fail_count |-> 0,
              total_successful_readings |-> 0]

\* parallel_test.py is not running.
TestIdle ==
    [pc |-> "idle", level |-> 0, tasks |-> <<>>, results |-> <<>>,
     metrics |-> NoMetrics, summary |-> <<>>]

\* A batch committed before the behaviour starts, by transaction -b at
\* clock reading Epoch + b - 1.
PriorBatch(seed, b) ==
    [n \in 1 .. num_sensors |->
        InsertRow(ReadingsOf[seed][n], Epoch + b - 1, 0 - b)]

RECURSIVE PriorStore(_, _)
PriorStore(seeds, b) ==
    IF b > Len(seeds) THEN <<>>
    ELSE PriorBatch(seeds[b], b) \o PriorStore(seeds, b + 1)

\* The function app starts against a table that is empty or holds the
\* batches of earlier runs, whose change notifications are still to be
\* delivered.  The workload: up to MaxIngest ingestions into an empty
\* table, one into a table that holds batches already.
Init ==
    /\ \E k \in 0 .. MaxPrior :
         /\ \E seeds \in [1 .. k -> Seeds] : store = PriorStore(seeds, 1)
         /\ committed = [b \in 1 .. k |-> 0 - b]
         /\ notifications = k
         /\ clock = Epoch + k - 1
         /\ quota = IF k = 0 THEN MaxIngest ELSE 1
    /\ environ \in {{ConnVar}, {}}
    /\ inv = [i \in Invs |-> Idle]
    /\ gen = GenIdle
    /\ test = TestIdle

InFlight == {i \in Invs : inv[i].pc \notin {"idle", "done"}}

\* The host makes invocation i: the next one not made yet, within the
\* concurrency the model allows.
CanStart(i) ==
    /\ inv[i].pc = "idle"
    /\ \A j \in Invs : j < i => inv[j].pc # "idle"
    /\ Cardinality(InFlight) < MaxConcurrent


\* The rows other connections have inserted and not committed.
RECURSIVE PendingOf(_)
PendingOf(S) ==
    IF S = {} THEN <<>>
    ELSE LET j == CHOOSE x \in S : \A y \in S : x <= y
         IN  inv[j].txn \o PendingOf(S \ {j})

Pending(i) == PendingOf(Invs \ {i})

At(i, k, p) == inv[i].kind = k /\ inv[i].pc = p

\* The handler returns: its frame is gone, and with it the locals that are
\* not part of what it returned or logged.
Returned(r) ==
    [r EXCEPT !.pc = "done", !.readings = <<>>, !.utc_timestamp = 0, !.next = 1,
              !.cur = <<>>, !.rows = <<>>]

\* ------------------------------------------ generate_http, generate_timer
\* Both handlers run the same statements up to the except clause; k is the
\* handler.

\* readings = generate_sensor_readings(); utc_timestamp = now(): the clock
\* has a resolution, and a reading of it that follows another ingestion's
\* finds it moved on or, coming within the resolution, finds the value that
\* one found; the readings of earlier runs lie back;
\* connection_string = os.environ[...], which raises KeyError outside the try.
\* what a reading of the clock may give
ClockReadings ==
    IF \E j \in Invs : inv[j].kind \in {"generate_http", "generate_timer"}
    THEN {clock, clock + 1}
    ELSE {clock + 1}

IngestStart(i, k) ==
    /\ CanStart(i)
    /\ quota > 0
    /\ quota' = quota - 1
    /\ \E seed \in Seeds, t \in ClockReadings :
        /\ clock' = t
        /\ inv' = [inv EXCEPT ![i] =
                     IF ConnVar \in environ
                     THEN [@ EXCEPT !.kind = k, !.pc = "connect",
                                    !.readings = ReadingsOf[seed],
                                    !.utc_timestamp = t]
                     ELSE Returned([@ EXCEPT !.kind = k, !.fault = "config",
                                             !.escaped = TRUE])]
    /\ UNCHANGED <<store, committed, notifications, environ, gen, test>>

\* conn = pyodbc.connect(connection_string); cursor = conn.cursor()
IngestConnect(i, k) ==
    /\ At(i, k, "connect")
    /\ \/ inv' = [inv EXCEPT ![i].conn = "open", ![i].pc = "insert",
                             ![i].ops.connect = @ + 1]
       \/ inv' = [inv EXCEPT ![i].pc = "except", ![i].fault = "connect",
                             ![i].ops.connect = @ + 1]
    /\ UNCHANGED <<store, committed, notifications, clock, quota, environ, gen, test>>

\* the count of runs of the insert loop, as its turn inv[i].next begins
Started(i, n) == IF inv[i].next = 1 THEN n + 1 ELSE n

\* one turn of "for r in readings: cursor.execute(INSERT ...)"
IngestInsert(i, k) ==
    /\ At(i, k, "insert")
    /\ inv[i].next <= Len(inv[i].readings)
    /\ \/ LET e == ExecuteInsert(store, inv[i].txn,
                       InsertRow(inv[i].readings[inv[i].next], inv[i].utc_timestamp, i))
          IN  /\ store' = e.store
              /\ inv' = [inv EXCEPT ![i].txn = e.txn, ![i].next = @ + 1,
                                    ![i].ops.append = Started(i, @)]
       \/ /\ inv' = [inv EXCEPT ![i].pc = "except", ![i].fault = "insert",
                                ![i].ops.append = Started(i, @)]
          /\ UNCHANGED store
    /\ UNCHANGED <<committed, notifications, clock, quota, environ, gen, test>>

\* the loop is over: conn.commit(); logging.info("Inserted ...").  A commit
\* is a change of the table: a change notification is raised.
IngestCommit(i, k) ==
    /\ At(i, k, "insert")
    /\ inv[i].next > Len(inv[i].readings)
    /\ \/ LET e == ConnCommit(store, inv[i].txn)
          IN  /\ store' = e.store
              /\ inv' = [inv EXCEPT ![i].txn = e.txn, ![i].pc = "finally",
                                    ![i].log = "inserted", ![i].ops.commit = @ + 1]
              /\ committed' = Append(committed, i)
              /\ notifications' = notifications + 1
       \/ /\ inv' = [inv EXCEPT ![i].pc = "except", ![i].fault = "commit",
                                ![i].ops.commit = @ + 1]
          /\ UNCHANGED <<store, committed, notifications>>
    /\ UNCHANGED <<clock, quota, environ, gen, test>>

\* finally: try: conn.close() except: pass.  With conn unbound (connect
\* raised) the NameError is swallowed.  Then the handler returns: the
\* response built in the except clause, or generate_http's 200.
IngestFinally(i, k) ==
    /\ At(i, k, "finally")
    /\ LET e == IF inv[i].conn = "open"
                THEN ConnClose(store, inv[i].txn)
                ELSE [store |-> store, txn |-> inv[i].txn]
           ok == k = "generate_http" /\ inv[i].status = 0
       IN  /\ store' = e.store
           /\ inv' = [inv EXCEPT ![i] = Returned([@ EXCEPT
                  !.txn = e.txn,
                  !.conn = IF @ = "open" THEN "closed" ELSE @,
                  !.status = IF ok THEN 200 ELSE @,
                  !.body = IF ok
                           THEN [@ EXCEPT !.inserted = Len(inv[i].readings),
                                          !.timestamp = isoformat(inv[i].utc_timestamp),
                                          !.readings = inv[i].readings]
                           ELSE @])]
    /\ UNCHANGED <<committed, notifications, clock, quota, environ, gen, test>>

GenerateHttpStart(i) == IngestStart(i, "generate_http")
GenerateHttpConnect(i) == IngestConnect(i, "generate_http")
GenerateHttpInsert(i) == IngestInsert(i, "generate_http")

\* Mutant of GenerateHttpCommit: an exception of conn.commit() is swallowed.
GenerateHttpCommitUnchecked(i) ==
    \/ IngestCommit(i, "generate_http") /\ inv'[i].pc = "finally"
    \/ /\ At(i, "generate_http", "insert")
       /\ inv[i].next > Len(inv[i].readings)
       /\ inv' = [inv EXCEPT ![i].pc = "finally", ![i].fault = "commit",
                             ![i].ops.commit = @ + 1]
       /\ UNCHANGED <<store, committed, notifications, clock, quota, environ, gen, test>>

GenerateHttpCommit(i) == IngestCommit(i, "generate_http")

\* Mutant of GenerateHttpExcept: the error is logged and no response is
\* returned from the except clause (as in generate_timer).
GenerateHttpExceptNoReturn(i) ==
    /\ At(i, "generate_http", "except")
    /\ inv' = [inv EXCEPT ![i].pc = "finally", ![i].log = "error"]
    /\ UNCHANGED <<store, committed, notifications, clock, quota, environ, gen, test>>

\* Mutant of GenerateHttpExcept: after a failure the handler starts over
\* once, from connect.
GenerateHttpExceptRetry(i) ==
    /\ At(i, "generate_http", "except")
    /\ inv' = IF inv[i].ops.connect < 2
              THEN [inv EXCEPT ![i].pc = "connect", ![i].next = 1, ![i].fault = "none"]
              ELSE [inv EXCEPT ![i].pc = "finally", ![i].log = "error",
                               ![i].status = 500,
                               ![i].body.error = "Error inserting into SQL"]
    /\ UNCHANGED <<store, committed, notifications, clock, quota, environ, gen, test>>

\* except Exception as e: logging.error(...); return HttpResponse(..., 500)
GenerateHttpExcept(i) ==
    /\ At(i, "generate_http", "except")
    /\ inv' = [inv EXCEPT ![i].pc = "finally", ![i].log = "error",
                          ![i].status = 500,
                          ![i].body.error = "Error inserting into SQL"]
    /\ UNCHANGED <<store, committed, notifications, clock, quota, environ, gen, test>>

GenerateHttpFinally(i) == IngestFinally(i, "generate_http")

\* Mutant of GenerateTimerStart: once a firing has failed, later firings
\* return at once.
GenerateTimerStartOnceFailed(i) ==
    IF \E j \in Invs : inv[j].kind = "generate_timer" /\ inv[j].log = "error"
    THEN /\ CanStart(i)
         /\ quota > 0
         /\ quota' = quota - 1
         /\ inv' = [inv EXCEPT ![i] = Returned([@ EXCEPT !.kind = "generate_timer"])]
         /\ UNCHANGED <<store, committed, notifications, clock, environ, gen, test>>
    ELSE IngestStart(i, "generate_timer")

GenerateTimerStart(i) == IngestStart(i, "generate_timer")
GenerateTimerConnect(i) == IngestConnect(i, "generate_timer")
GenerateTimerInsert(i) == IngestInsert(i, "generate_timer")
GenerateTimerCommit(i) == IngestCommit(i, "generate_timer")

\* except Exception as e: logging.error("Timer trigger SQL error: %s", e)
GenerateTimerExcept(i) ==
    /\ At(i, "generate_timer", "except")
    /\ inv' = [inv EXCEPT ![i].pc = "finally", ![i].log = "error"]
    /\ UNCHANGED <<store, committed, notifications, clock, quota, environ, gen, test>>

GenerateTimerFinally(i) == IngestFinally(i, "generate_timer")

\* ---------------------------------------------------------- stats_http
\* try: conn = pyodbc.connect(os.environ[...]); cur = conn.cursor()
StatsHttpConnect(i) ==
    /\ CanStart(i)
    /\ IF ConnVar \notin environ
       THEN inv' = [inv EXCEPT ![i].kind = "stats_http", ![i].pc = "except",
                               ![i].fault = "config"]
       ELSE \/ inv' = [inv EXCEPT ![i].kind = "stats_http", ![i].pc = "execute",
                                  ![i].conn = "open", ![i].ops.connect = @ + 1]
            \/ inv' = [inv EXCEPT ![i].kind = "stats_http", ![i].pc = "except",
                                  ![i].fault = "connect", ![i].ops.connect = @ + 1]
    /\ UNCHANGED <<store, committed, notifications, clock, quota, environ, gen, test>>

\* cur.execute(SELECT ...): the server runs the statement, and the cursor
\* holds its result set.
StatsHttpExecute(i) ==
    /\ At(i, "stats_http", "execute")
    /\ \/ inv' = [inv EXCEPT ![i].pc = "except", ![i].fault = "query",
                             ![i].ops.query = @ + 1]
       \/ \E scan \in ScanOrders(ReadRows(store, Pending(i))) :
             inv' = [inv EXCEPT ![i].cur = StatsHttpSelect(scan),
                                ![i].seen = Len(committed),
                                ![i].pc = "fetchall", ![i].ops.query = @ + 1]
    /\ UNCHANGED <<store, committed, notifications, clock, quota, environ, gen, test>>

\* rows = cur.fetchall(): a second call of the driver, which brings the
\* result set over or raises; other invocations run between the two calls.
StatsHttpFetchall(i) ==
    /\ At(i, "stats_http", "fetchall")
    /\ \/ inv' = [inv EXCEPT ![i].pc = "except", ![i].fault = "query"]
       \/ inv' = [inv EXCEPT ![i].rows = inv[i].cur, ![i].pc = "format"]
    /\ UNCHANGED <<store, committed, notifications, clock, quota, environ, gen, test>>

\* data = [...]; return HttpResponse(json.dumps(data), status_code=200).
\* The handler has no finally and never calls conn.close(); conn and cur are
\* locals that nothing else refers to, so the connection object is
\* deallocated as the frame goes, and pyodbc closes (rolling back) a
\* connection that is deallocated.
StatsHttpReturn(i) ==
    /\ At(i, "stats_http", "format")
    /\ LET e == IF inv[i].conn = "open"
                THEN ConnClose(store, inv[i].txn)
                ELSE [store |-> store, txn |-> inv[i].txn]
       IN  /\ store' = e.store
           /\ inv' = [inv EXCEPT ![i] = Returned([@ EXCEPT
                  !.body.data = StatsHttpData(inv[i].rows), !.status = 200,
                  !.txn = e.txn,
                  !.conn = IF @ = "open" THEN "closed" ELSE @])]
    /\ UNCHANGED <<committed, notifications, clock, quota, environ, gen, test>>

\* except Exception as e: logging.error(e); return HttpResponse(str(e), 500).
\* With conn unbound (the lookup or connect raised) there is no connection.
\* A connection that was opened is referred to by the frame, the frame by
\* e.__traceback__, and e by the log record that logging.error(e) makes.
\* Where no log handler keeps the record, the connection object is
\* deallocated, and so closed, as the frame goes; where one does, the
\* object lives on and the connection is open when the handler has
\* returned.  The handler controls neither.
StatsHttpExcept(i) ==
    /\ At(i, "stats_http", "except")
    /\ \E kept \in IF inv[i].conn = "open" THEN BOOLEAN ELSE {TRUE} :
          LET e == IF inv[i].conn = "open" /\ ~kept
                   THEN ConnClose(store, inv[i].txn)
                   ELSE [store |-> store, txn |-> inv[i].txn]
          IN  /\ store' = e.store
              /\ inv' = [inv EXCEPT ![i] = Returned([@ EXCEPT
                     !.log = "error", !.status = 500, !.body.error = "error",
                     !.txn = e.txn,
                     !.conn = IF @ = "open" /\ ~kept THEN "closed" ELSE @])]
    /\ UNCHANGED <<committed, notifications, clock, quota, environ, gen, test>>

\* The log record of a stats_http that returned 500 is dropped: the
\* exception, its traceback and the frame go, and the connection object
\* with them; pyodbc closes (rolling back) a connection that is deallocated.
StatsHttpLogDropped(i) ==
    /\ At(i, "stats_http", "done")
    /\ inv[i].conn = "open"
    /\ LET e == ConnClose(store, inv[i].txn)
       IN  /\ store' = e.store
           /\ inv' = [inv EXCEPT ![i].txn = e.txn, ![i].conn = "closed"]
    /\ UNCHANGED <<committed, notifications, clock, quota, environ, gen, test>>

\* --------------------------------------------------- stats_sql_trigger
\* A change notification is delivered; try: conn = pyodbc.connect(...)
StatsSqlConnect(i) ==
    /\ CanStart(i)
    /\ notifications > 0
    /\ notifications' = notifications - 1
    /\ IF ConnVar \notin environ
       THEN inv' = [inv EXCEPT ![i].kind = "stats_sql_trigger", ![i].pc = "except",
                               ![i].fault = "config"]
       ELSE \/ inv' = [inv EXCEPT ![i].kind = "stats_sql_trigger", ![i].pc = "execute",
                                  ![i].conn = "open", ![i].ops.connect = @ + 1]
            \/ inv' = [inv EXCEPT ![i].kind = "stats_sql_trigger", ![i].pc = "except",
                                  ![i].fault = "connect", ![i].ops.connect = @ + 1]
    /\ UNCHANGED <<store, committed, clock, quota, environ, gen, test>>

\* Mutant of StatsSqlExecute: the recompute also deletes the oldest row of
\* the table.
StatsSqlExecutePrunes(i) ==
    /\ At(i, "stats_sql_trigger", "execute")
    /\ inv' = [inv EXCEPT ![i].cur = StatsSqlSelect(ReadRows(store, Pending(i))),
                          ![i].seen = Len(committed),
                          ![i].pc = "fetchall", ![i].ops.query = @ + 1]
    /\ store' = IF store = <<>> THEN store ELSE Tail(store)
    /\ UNCHANGED <<committed, notifications, clock, quota, environ, gen, test>>

\* cur.execute(SELECT ...): the server runs the statement, and the cursor
\* holds its result set.
StatsSqlExecute(i) ==
    /\ At(i, "stats_sql_trigger", "execute")
    /\ \/ inv' = [inv EXCEPT ![i].pc = "except", ![i].fault = "query",
                             ![i].ops.query = @ + 1]
       \/ \E scan \in ScanOrders(ReadRows(store, Pending(i))) :
             inv' = [inv EXCEPT ![i].cur = StatsSqlSelect(scan),
                                ![i].seen = Len(committed),
                                ![i].pc = "fetchall", ![i].ops.query = @ + 1]
    /\ UNCHANGED <<store, committed, notifications, clock, quota, environ, gen, test>>

\* rows = cur.fetchall(): a second call of the driver, which brings the
\* result set over or raises; other invocations run between the two calls.
StatsSqlFetchall(i) ==
    /\ At(i, "stats_sql_trigger", "fetchall")
    /\ \/ inv' = [inv EXCEPT ![i].pc = "except", ![i].fault = "query"]
       \/ inv' = [inv EXCEPT ![i].rows = inv[i].cur, ![i].pc = "format"]
    /\ UNCHANGED <<store, committed, notifications, clock, quota, environ, gen, test>>

\* Mutant of StatsSqlLog: the statistics are also written to SensorReadings,
\* a change of the table that raises a change notification.
StatsSqlLogTouches(i) ==
    /\ At(i, "stats_sql_trigger", "format")
    /\ inv' = [inv EXCEPT ![i].body.data = StatsSqlResults(inv[i].rows),
                          ![i].log = "stats", ![i].pc = "finally"]
    /\ notifications' = notifications + 1
    /\ UNCHANGED <<store, committed, clock, quota, environ, gen, test>>

\* results = [...]; logging.info("Statistics ...", json.dumps(results))
StatsSqlLog(i) ==
    /\ At(i, "stats_sql_trigger", "format")
    /\ inv' = [inv EXCEPT ![i].body.data = StatsSqlResults(inv[i].rows),
                          ![i].log = "stats", ![i].pc = "finally"]
    /\ UNCHANGED <<store, committed, notifications, clock, quota, environ, gen, test>>

\* except Exception as e: logging.error("SQL trigger statistics error: %s", e)
StatsSqlExcept(i) ==
    /\ At(i, "stats_sql_trigger", "except")
    /\ inv' = [inv EXCEPT ![i].log = "error", ![i].pc = "finally"]
    /\ UNCHANGED <<store, committed, notifications, clock, quota, environ, gen, test>>

\* finally: try: conn.close() except: pass
StatsSqlFinally(i) ==
    /\ At(i, "stats_sql_trigger", "finally")
    /\ LET e == IF inv[i].conn = "open"
                THEN ConnClose(store, inv[i].txn)
                ELSE [store |-> store, txn |-> inv[i].txn]
       IN  /\ store' = e.store
           /\ inv' = [inv EXCEPT ![i] = Returned([@ EXCEPT
                  !.txn = e.txn, !.conn = IF @ = "open" THEN "closed" ELSE @])]
    /\ UNCHANGED <<committed, notifications, clock, quota, environ, gen, test>>

\* ------------------------------------------------------- specification
Next ==
    \E i \in Invs :
        \/ GenerateHttpStart(i)
        \/ GenerateHttpConnect(i)
        \/ GenerateHttpInsert(i)
        \/ GenerateHttpCommit(i)
        \/ GenerateHttpExcept(i)
        \/ GenerateHttpFinally(i)
        \/ GenerateTimerStart(i)
        \/ GenerateTimerConnect(i)
        \/ GenerateTimerInsert(i)
        \/ GenerateTimerCommit(i)
        \/ GenerateTimerExcept(i)
        \/ GenerateTimerFinally(i)
        \/ StatsHttpConnect(i)
        \/ StatsHttpExecute(i)
        \/ StatsHttpFetchall(i)
        \/ StatsHttpReturn(i)
        \/ StatsHttpExcept(i)
        \/ StatsHttpLogDropped(i)
        \/ StatsSqlConnect(i)
        \/ StatsSqlExecute(i)
        \/ StatsSqlFetchall(i)
        \/ StatsSqlLog(i)
        \/ StatsSqlExcept(i)
        \/ StatsSqlFinally(i)

Spec == Init /\ [][Next]_vars

\* ------------------------------------------- the function app, running on
\* The host keeps nothing of an invocation that has returned: the next
\* event is handled afresh.
Recycle(i) ==
    /\ inv[i].pc = "done"
    /\ inv' = [inv EXCEPT ![i] = Idle]
    /\ UNCHANGED <<store, committed, notifications, clock, quota, environ, gen, test>>

\* the steps of an invocation that has started
RunToCompletion(i) ==
    \/ GenerateHttpConnect(i) \/ GenerateHttpInsert(i) \/ GenerateHttpCommit(i)
    \/ GenerateHttpExcept(i) \/ GenerateHttpFinally(i)
    \/ GenerateTimerConnect(i) \/ GenerateTimerInsert(i) \/ GenerateTimerCommit(i)
    \/ GenerateTimerExcept(i) \/ GenerateTimerFinally(i)
    \/ StatsHttpExecute(i) \/ StatsHttpFetchall(i) \/ StatsHttpReturn(i)
    \/ StatsHttpExcept(i)
    \/ StatsSqlExecute(i) \/ StatsSqlFetchall(i) \/ StatsSqlLog(i)
    \/ StatsSqlExcept(i) \/ StatsSqlFinally(i)

HostNext == Next \/ \E i \in Invs : Recycle(i)

\* The ingestion firings are finitely many: the table is empty and one
\* ingestion is to come, or it holds up to MaxPrior batches, whose change
\* notifications are pending, and none is to come.
HostInit ==
    /\ \E k \in 0 .. MaxPrior :
         /\ \E seeds \in [1 .. k -> Seeds] : store = PriorStore(seeds, 1)
         /\ committed = [b \in 1 .. k |-> 0 - b]
         /\ notifications = k
         /\ clock = Epoch + k - 1
         /\ quota = IF k = 0 THEN 1 ELSE 0
    /\ environ \in {{ConnVar}, {}}
    /\ inv = [i \in Invs |-> Idle]
    /\ gen = GenIdle
    /\ test = TestIdle

\* Scheduling: a handler that has started runs on until it returns, the
\* host forgets invocations that have returned, and a change notification
\* that is pending is delivered, whatever other triggers fire.
HostSpec ==
    /\ HostInit
    /\ [][HostNext]_vars
    /\ \A i \in Invs : WF_vars(RunToCompletion(i)) /\ WF_vars(Recycle(i))
    /\ SF_vars(\E i \in Invs : StatsSqlConnect(i))

\* -------------------------------------- generate_sensor_readings, by turn
\* One call of the generator followed through its loop.  The inputs: the
\* state of the random source (seed) and the batch size the caller would
\* like (count); the function has no parameter to take it.
FunctionAppIdle ==
    /\ store = <<>>
    /\ committed = <<>>
    /\ notifications = 0
    /\ clock = Epoch
    /\ quota = 0
    /\ environ = {ConnVar}
    /\ inv = [i \in Invs |-> Idle]

GenInit ==
    /\ FunctionAppIdle
    /\ test = TestIdle
    /\ \E c \in 1 .. MaxCount, s \in 0 .. MaxGenSeed :
         gen = [pc |-> "call", count |-> c, seed |-> s, readings |-> <<>>]

\* readings = generate_sensor_readings(): called without arguments;
\* readings = []; num_sensors = 20
GenerateCall ==
    /\ gen.pc = "call"
    /\ gen' = [gen EXCEPT !.pc = "loop", !.readings = <<>>]
    /\ UNCHANGED <<store, committed, notifications, clock, quota, environ, inv, test>>

\* one turn of "for sensor_id in range(1, num_sensors + 1): readings.append"
GenerateAppend ==
    /\ gen.pc = "loop"
    /\ Len(gen.readings) < num_sensors
    /\ gen' = [gen EXCEPT !.readings =
                 Append(@, generate_sensor_readings(gen.seed)[Len(@) + 1])]
    /\ UNCHANGED <<store, committed, notifications, clock, quota, environ, inv, test>>

\* the range is exhausted: return readings
GenerateReturn ==
    /\ gen.pc = "loop"
    /\ Len(gen.readings) = num_sensors
    /\ gen' = [gen EXCEPT !.pc = "done"]
    /\ UNCHANGED <<store, committed, notifications, clock, quota, environ, inv, test>>

GenNext ==
    \/ GenerateCall
    \/ GenerateAppend
    \/ GenerateReturn

GenSpec == GenInit /\ [][GenNext]_vars

\* --------------------------------------- the statistics of a given table
\* stats_http and stats_sql_trigger run against a table that holds any rows:
\* up to MaxRows rows of sensors 1 .. MaxSensorId, inserted in any order;
\* those of sensor 1 at the temperatures of SampleTemps, three round ones
\* and one the generator draws, those of the other sensors at the first of
\* them.  One change notification is pending.
SampleTemps == <<Lit(10), Lit(12), Lit(14), ReadingsOf[0][1].temperature>>

SampleRow(sid, k) ==
    InsertRow([sensor_id |-> sid, temperature |-> SampleTemps[k], wind |-> Lit(12 + sid),
               humidity |-> Lit(30 + 2 * k), co2 |-> Lit(400 + 16 * sid)], 0, 0)

SampleRows ==
    {SampleRow(1, k) : k \in 1 .. Len(SampleTemps)}
        \cup {SampleRow(sid, 1) : sid \in 2 .. MaxSensorId}

StatsInit ==
    /\ \E n \in 0 .. MaxRows : store \in [1 .. n -> SampleRows]
    /\ committed = <<>>
    /\ notifications = 1
    /\ clock = Epoch
    /\ quota = 0
    /\ environ = {ConnVar}
    /\ inv = [i \in Invs |-> Idle]
    /\ gen = GenIdle
    /\ test = TestIdle

StatsNext ==
    \E i \in Invs :
        \/ StatsHttpConnect(i)
        \/ StatsHttpExecute(i)
        \/ StatsHttpFetchall(i)
        \/ StatsHttpReturn(i)
        \/ StatsHttpExcept(i)
        \/ StatsHttpLogDropped(i)
        \/ StatsSqlConnect(i)
        \/ StatsSqlExecute(i)
        \/ StatsSqlFetchall(i)
        \/ StatsSqlLog(i)
        \/ StatsSqlExcept(i)
        \/ StatsSqlFinally(i)

StatsSpec == StatsInit /\ [][StatsNext]_vars

\* ------------------------------------------------------ parallel_test.py
\* main() from its loop over WORKLOADS on (warmup() has returned; it leaves
\* nothing behind), followed through the first MaxLevels levels.  The
\* function app is the far end of the HTTP requests: what it answers is an
\* input.  Durations and throughput are left out.

\* What awaiting client.get(FUNCTION_URL, timeout=120.0) may come to: a
\* response with a status code, or an exception of httpx.
Outcomes ==
    {[kind |-> "response", status |-> 200, exc |-> "none"],
     [kind |-> "response", status |-> 500, exc |-> "none"],
     [kind |-> "exception", status |-> 0, exc |-> "ReadTimeout"],
     [kind |-> "exception", status |-> 0, exc |-> "ConnectError"]}

NoOutcome == [kind |-> "none", status |-> 0, exc |-> "none"]

\* Mutant of call_function: only httpx.ReadTimeout is caught.
call_function_NoCatchAll(o) ==
    IF o.kind = "response"
    THEN IF o.status = 200
         THEN [raised |-> FALSE, label |-> <<"Success">>]
         ELSE [raised |-> FALSE, label |-> <<"Fail_HTTP", o.status>>]
    ELSE IF o.exc = "ReadTimeout"
         THEN [raised |-> FALSE, label |-> <<"Fail_Timeout">>]
         ELSE [raised |-> TRUE, label |-> <<>>]

\* call_function from the end of the await: the label returned for outcome
\* o.  "Fail_HTTP_500" is <<"Fail_HTTP", 500>>, and so on.
call_function(o) ==
    IF o.kind = "response"
    THEN IF o.status = 200
         THEN [raised |-> FALSE, label |-> <<"Success">>]
         ELSE [raised |-> FALSE, label |-> <<"Fail_HTTP", o.status>>]
    ELSE IF o.exc = "ReadTimeout"
         THEN [raised |-> FALSE, label |-> <<"Fail_Timeout">>]
         ELSE [raised |-> FALSE, label |-> <<"Fail_Error", o.exc>>]

NewTask == [pc |-> "created", outcome |-> NoOutcome, label |-> <<>>]

TestInit ==
    /\ FunctionAppIdle
    /\ gen = GenIdle
    /\ test = [TestIdle EXCEPT !.pc = "loop", !.level = 1]

\* for num_calls in WORKLOADS: run_test(num_calls):
\* tasks = [call_function(client) for _ in range(num_calls)]
RunTestStart ==
    /\ test.pc = "loop"
    /\ test.level <= Len(WORKLOADS)
    /\ test.level <= MaxLevels
    /\ test' = [test EXCEPT !.pc = "gather",
                            !.tasks = [n \in 1 .. WORKLOADS[test.level] |-> NewTask],
                            !.results = <<>>,
                            !.metrics = NoMetrics]
    /\ UNCHANGED <<store, committed, notifications, clock, quota, environ, inv, gen>>

\* task n runs up to "await client.get(...)": its request is sent
CallFunctionGet(n) ==
    /\ test.pc = "gather"
    /\ n \in 1 .. Len(test.tasks)
    /\ test.tasks[n].pc = "created"
    /\ test' = [test EXCEPT !.tasks[n].pc = "awaiting"]
    /\ UNCHANGED <<store, committed, notifications, clock, quota, environ, inv, gen>>

\* the await of task n ends, and call_function returns its label or raises
CallFunctionReturn(n) ==
    /\ test.pc = "gather"
    /\ n \in 1 .. Len(test.tasks)
    /\ test.tasks[n].pc = "awaiting"
    /\ \E o \in Outcomes :
         LET c == call_function(o) IN
         test' = [test EXCEPT !.tasks[n] =
                     [pc |-> IF c.raised THEN "raised" ELSE "returned",
                      outcome |-> o, label |-> c.label]]
    /\ UNCHANGED <<store, committed, notifications, clock, quota, environ, inv, gen>>

Count(labels, l) == Cardinality({n \in 1 .. Len(labels) : labels[n] = l})

\* results = await asyncio.gather(*tasks) ends: with the tasks' labels in the
\* tasks' order once all have returned, or with the exception of a task
\* that raised.  Then run_test counts and returns to main, which appends to
\* summary.
RunTestReturn ==
    /\ test.pc = "gather"
    /\ \/ \E n \in 1 .. Len(test.tasks) : test.tasks[n].pc = "raised"
       \/ \A n \in 1 .. Len(test.tasks) : test.tasks[n].pc = "returned"
    /\ IF \E n \in 1 .. Len(test.tasks) : test.tasks[n].pc = "raised"
       THEN test' = [test EXCEPT !.pc = "crashed"]
       ELSE LET num_calls == WORKLOADS[test.level]
                results == [n \in 1 .. Len(test.tasks) |-> test.tasks[n].label]
                success_count == Count(results, <<"Success">>)
                fail_count == num_calls - success_count
                metrics == [num_calls |-> num_calls,
                            success_count |-> success_count,
                            fail_count |-> fail_count,
                            total_successful_readings |->
                                success_count * SENSORS_PER_READING]
            IN  test' = [test EXCEPT !.pc = "sleep", !.results = results,
                                     !.metrics = metrics,
                                     !.summary = Append(@, metrics)]
    /\ UNCHANGED <<store, committed, notifications, clock, quota, environ, inv, gen>>

\* await asyncio.sleep(1): the loop goes on to the next level, or is over
MainSleep ==
    /\ test.pc = "sleep"
    /\ test' = [test EXCEPT
                   !.pc = IF test.level < Len(WORKLOADS) /\ test.level < MaxLevels
                          THEN "loop" ELSE "done",
                   !.level = @ + 1, !.tasks = <<>>, !.results = <<>>,
                   !.metrics = NoMetrics]
    /\ UNCHANGED <<store, committed, notifications, clock, quota, environ, inv, gen>>

TestNext ==
    \/ RunTestStart
    \/ \E n \in 1 .. WORKLOADS[MaxLevels] : CallFunctionGet(n)
    \/ \E n \in 1 .. WORKLOADS[MaxLevels] : CallFunctionReturn(n)
    \/ RunTestReturn
    \/ MainSleep

TestSpec == TestInit /\ [][TestNext]_vars

\* --------------------------------------------------------------- claims
IsIngest(i) == inv[i].kind \in {"generate_http", "generate_timer"}
IsStats(i) == inv[i].kind \in {"stats_http", "stats_sql_trigger"}
IsDone(i) == inv[i].pc = "done"

\* the rows of the table written by transaction t
RowsOf(tbl, t) == Len(SelectSeq(tbl, LAMBDA r : r.Txn = t))

\* the table as it stood when n transactions had committed
StoreAt(n) == SubSeq(store, 1, n * num_sensors)

\* the statistics an invocation has produced: the /stats response's array,
\* or the array stats_sql_trigger logged
HasStats(i) ==
    /\ IsStats(i)
    /\ IsDone(i)
    /\ inv[i].status = 200 \/ inv[i].log = "stats"

\* what the two handlers compute from a table
StatsOf(k, tbl) ==
    IF k = "stats_http" THEN StatsHttpData(StatsHttpSelect(tbl))
    ELSE StatsSqlResults(StatsSqlSelect(tbl))

\* d is the statistics handler k computes from table tbl, the engine
\* scanning the rows in an order of its choosing
IsStatsOf(d, k, tbl) == \E scan \in ScanOrders(tbl) : d = StatsOf(k, scan)

\* C1: batch atomicity.  In every state, of each ingestion invocation's
\* batch either all num_sensors rows are in the table a reader sees or none
\* is; none is if an INSERT or the commit failed; and the statistics a
\* reader got are those of a table made of whole batches only.
C1_BatchAtomic ==
    /\ \A i \in Invs : IsIngest(i) =>
          /\ RowsOf(ReadRows(store, Pending(0)), i) \in {0, num_sensors}
          /\ inv[i].fault # "none" => RowsOf(ReadRows(store, Pending(0)), i) = 0
    /\ \A j \in Invs : HasStats(j) =>
          IsStatsOf(inv[j].body.data, inv[j].kind, StoreAt(inv[j].seen))

\* C1 witness: generate_http failed at an INSERT with rows of its batch
\* already inserted, and a reader has returned statistics of a table that
\* holds batches.
C1_Witness ==
    \E i, j \in Invs :
        /\ inv[i].kind = "generate_http"
        /\ inv[i].fault = "insert"
        /\ inv[i].pc = "except"
        /\ Len(inv[i].txn) > 0
        /\ HasStats(j)
        /\ inv[j].body.data # <<>>

\* the batches the table held at the start
PriorBatches == Cardinality({n \in 1 .. Len(committed) : committed[n] < 0})

\* C2: no lost or duplicated writes.  When every ingestion invocation made
\* has returned and none has failed, the table holds exactly num_sensors
\* rows per invocation more than at the start.
C2_NoLostOrDuplicatedWrites ==
    LET made == {i \in Invs : IsIngest(i)} IN
    (\A i \in made : IsDone(i) /\ inv[i].fault = "none") =>
        Len(store) = PriorBatches * num_sensors + Cardinality(made) * num_sensors

\* C2 witness: two ingestion invocations ran interleaved (the second made
\* committed first) and both returned without failure.
C2_Witness ==
    /\ \A i \in Invs : IsIngest(i) /\ IsDone(i) /\ inv[i].fault = "none"
    /\ committed = <<2, 1>>

\* C3: generate_http whose connect fails returns 500 with an error body and
\* inserts no row, and a generate_http made after it whose store operations
\* all succeed returns 200 with its num_sensors rows inserted.
C3_UnreachableThenHealthy ==
    \A i \in Invs :
        (inv[i].kind = "generate_http" /\ IsDone(i) /\ inv[i].fault = "connect") =>
            /\ inv[i].status = 500
            /\ inv[i].body.error # ""
            /\ RowsOf(store, i) = 0
            /\ \A j \in Invs :
                  (j > i /\ inv[j].kind = "generate_http" /\ IsDone(j)
                        /\ inv[j].fault = "none") =>
                      /\ inv[j].status = 200
                      /\ inv[j].body.inserted = num_sensors
                      /\ RowsOf(store, j) = num_sensors

\* C3 witness: a generate_http that failed to connect, and a later one
\* that returned 200.
C3_Witness ==
    \E i, j \in Invs :
        /\ i < j
        /\ inv[i].kind = "generate_http" /\ IsDone(i) /\ inv[i].fault = "connect"
        /\ inv[j].kind = "generate_http" /\ IsDone(j) /\ inv[j].status = 200

\* lo <= q <= hi, of an average q and two stored values
Between(lo, q, hi) == Leq(lo, q) /\ Leq(q, hi)

MinAvgMax(d) ==
    /\ Between(d.temperature_min, d.temperature_avg, d.temperature_max)
    /\ Between(d.wind_min, d.wind_avg, d.wind_max)
    /\ Between(d.humidity_min, d.humidity_avg, d.humidity_max)
    /\ Between(d.co2_min, d.co2_avg, d.co2_max)

\* C4: every sensor in statistics returned by stats_http or logged by
\* stats_sql_trigger has min <= avg <= max for each of the four metrics.
C4_MinAvgMax ==
    \A j \in Invs : HasStats(j) =>
        \A n \in 1 .. Len(inv[j].body.data) : MinAvgMax(inv[j].body.data[n])

StepOf(i) == inv'[i] # inv[i]

\* C6: the statistics handlers never write.  No step of stats_http or
\* stats_sql_trigger, on its success path or a failure path, changes the
\* table.
C6_StatsNeverWrite ==
    [][\A i \in Invs :
          (StepOf(i) /\ inv'[i].kind \in {"stats_http", "stats_sql_trigger"}) =>
              store' = store]_vars

\* C6 witness: statistics invocations have run to the end against a table
\* that holds rows, one succeeding and one failing.
C6_Witness ==
    \E i, j \in Invs :
        /\ HasStats(i)
        /\ IsStats(j) /\ IsDone(j) /\ inv[j].fault # "none"
        /\ store # <<>>

\* C7: an invocation that opened a connection has closed it when it
\* returns.
C7_ConnClosedOnReturn ==
    \A i \in Invs : IsDone(i) => inv[i].conn \in {"unbound", "closed"}

\* C8: no failure escapes a handler.  A failed HTTP invocation returns 500,
\* a failed timer or change-notification firing logs the error, and no
\* exception leaves the handler.
C8_NoFailureEscapes ==
    \A i \in Invs : (IsDone(i) /\ inv[i].fault # "none") =>
        /\ ~inv[i].escaped
        /\ inv[i].kind \in {"generate_http", "stats_http"} => inv[i].status = 500
        /\ inv[i].kind \in {"generate_timer", "stats_sql_trigger"} => inv[i].log = "error"

\* the firing ran its whole action and succeeded
FiringSucceeded(j) ==
    IF inv[j].kind = "generate_timer"
    THEN /\ inv[j].log = "inserted"
         /\ inv[j].ops = [connect |-> 1, append |-> 1, commit |-> 1, query |-> 0]
         /\ RowsOf(store, j) = num_sensors
    ELSE /\ inv[j].log = "stats"
         /\ inv[j].ops = [connect |-> 1, append |-> 0, commit |-> 0, query |-> 1]
         /\ IsStatsOf(inv[j].body.data, inv[j].kind, StoreAt(inv[j].seen))

OpsAtFault(f) ==
    [connect |-> IF f = "config" THEN 0 ELSE 1,
     append  |-> IF f \in {"insert", "commit"} THEN 1 ELSE 0,
     commit  |-> IF f = "commit" THEN 1 ELSE 0,
     query   |-> IF f = "query" THEN 1 ELSE 0]

\* C10: no automatic retry.  An invocation attempts each store operation
\* (connect, append, commit, query) at most once, and once one has failed it
\* attempts none again.
C10_NoRetry ==
    \A i \in Invs :
        /\ inv[i].ops.connect <= 1
        /\ inv[i].ops.append <= 1
        /\ inv[i].ops.commit <= 1
        /\ inv[i].ops.query <= 1
        /\ inv[i].fault # "none" => inv[i].ops = OpsAtFault(inv[i].fault)

\* C10 witness: an invocation failed at an INSERT after part of its batch
\* and has returned.
C10_Witness ==
    \E i \in Invs :
        /\ IsDone(i)
        /\ inv[i].fault = "insert"
        /\ inv[i].ops.connect = 1

\* C11: the table is append-only.  Every step leaves each stored row in its
\* place with the field values it had: the table after the step begins with
\* the table before it, so no row is updated or deleted and the row count
\* never decreases.
C11_AppendOnly ==
    [][/\ Len(store') >= Len(store)
       /\ SubSeq(store', 1, Len(store)) = store]_vars

\* C11 witness: an ingestion committed its batch, a later ingestion failed
\* at an INSERT and was rolled back, and the table holds the one batch.
C11_Witness ==
    \E i, j \in Invs :
        /\ i < j
        /\ IsIngest(i) /\ IsDone(i) /\ inv[i].log = "inserted"
        /\ IsIngest(j) /\ IsDone(j) /\ inv[j].fault = "insert"
        /\ Len(store) = num_sensors

\* the rows of the table written by invocation i, in table order
BatchOf(tbl, i) == SelectSeq(tbl, LAMBDA row : row.Txn = i)

\* C12: round-trip fidelity.  Once an ingestion has committed, and while its
\* readings and timestamp are still at hand, the table holds one row per
\* reading of the batch, in order, with the reading's sensor id and four
\* metric values and with the invocation's one timestamp.
C12_RoundTrip ==
    \A i \in Invs :
        (IsIngest(i) /\ inv[i].pc = "finally" /\ inv[i].log = "inserted") =>
            LET b == BatchOf(ReadRows(store, Pending(i)), i) IN
            /\ Len(b) = Len(inv[i].readings)
            /\ \A n \in 1 .. Len(b) :
                  /\ b[n].SensorId = inv[i].readings[n].sensor_id
                  /\ b[n].Temperature = inv[i].readings[n].temperature
                  /\ b[n].WindSpeed = inv[i].readings[n].wind
                  /\ b[n].Humidity = inv[i].readings[n].humidity
                  /\ b[n].CO2 = inv[i].readings[n].co2
                  /\ b[n].ReadingTimeUtc = inv[i].utc_timestamp

\* C12 witness: an ingestion has committed and not yet returned, while the
\* table holds another batch committed after its own.
C12_Witness ==
    \E i, j \in Invs :
        /\ IsIngest(i) /\ inv[i].pc = "finally" /\ inv[i].log = "inserted"
        /\ Len(inv[i].readings) = num_sensors
        /\ committed = <<i, j>>

InRange(x, a, b) == Leq(Lit(a), x) /\ Leq(x, Lit(b))

MetricsInRange(r) ==
    /\ InRange(r.temperature, 5, 18)
    /\ InRange(r.wind, 12, 24)
    /\ InRange(r.humidity, 30, 60)
    /\ InRange(r.co2, 400, 1600)

\* C13 as claimed: for every count > 0 the caller would like, the generator
\* returns exactly count readings, with sensor_id 1 .. count in order and
\* every metric in its range.
C13_GenerateCount ==
    gen.pc = "done" =>
        /\ Len(gen.readings) = gen.count
        /\ \A n \in 1 .. Len(gen.readings) :
              /\ gen.readings[n].sensor_id = n
              /\ MetricsInRange(gen.readings[n])

\* C13 amended: whatever count the caller would like, the generator returns
\* exactly num_sensors (20) readings, with sensor_id 1 .. 20 in order,
\* temperature in [5, 18], wind in [12, 24], humidity in [30, 60] and co2 in
\* [400, 1600].
C13_GenerateTwenty ==
    gen.pc = "done" =>
        /\ Len(gen.readings) = num_sensors
        /\ \A n \in 1 .. Len(gen.readings) :
              /\ gen.readings[n].sensor_id = n
              /\ MetricsInRange(gen.readings[n])

\* C13 witness: the generator has returned to a caller that would like a
\* batch of another size, with readings that differ from sensor to sensor.
C13_Witness ==
    /\ gen.pc = "done"
    /\ gen.count # num_sensors
    /\ Len(gen.readings) = num_sensors
    /\ gen.readings[1].temperature # gen.readings[2].temperature

\* the sensor ids of statistics d, in the order returned
IdsOf(d) == [n \in 1 .. Len(d) |-> d[n].sensor_id]

\* C14: the sensor ids of the statistics stats_http returns are the
\* distinct sensor ids that have a row in the table, each once, in strictly
\* ascending order; of an empty table the statistics are the empty
\* sequence.
C14_SensorIdsAscending ==
    \A j \in Invs : (HasStats(j) /\ inv[j].kind = "stats_http") =>
        LET ids == IdsOf(inv[j].body.data) IN
        /\ \A n, m \in 1 .. Len(ids) : n < m => ids[n] < ids[m]
        /\ {ids[n] : n \in 1 .. Len(ids)} = {store[k].SensorId : k \in 1 .. Len(store)}
        /\ store = <<>> => inv[j].body.data = <<>>

\* C14 witness: stats_http has returned the statistics of a table whose
\* rows are of sensor 3, then of sensor 1, twice, and none of sensor 2.
C14_Witness ==
    \E j \in Invs :
        /\ HasStats(j) /\ inv[j].kind = "stats_http"
        /\ Len(store) = 3
        /\ store[1].SensorId = 3 /\ store[2].SensorId = 1 /\ store[3].SensorId = 1
        /\ Len(inv[j].body.data) = 2

\* v is the least (greatest) value of column c over rows g
IsMinOf(v, g, c) ==
    /\ \E k \in 1 .. Len(g) : g[k][c] = v
    /\ \A k \in 1 .. Len(g) : Leq(v, g[k][c])
IsMaxOf(v, g, c) ==
    /\ \E k \in 1 .. Len(g) : g[k][c] = v
    /\ \A k \in 1 .. Len(g) : Leq(g[k][c], v)

\* the floating-point sum of column c over rows g, from row k on, the
\* rows before it having come to acc
RECURSIVE FloatSum(_, _, _, _)
FloatSum(g, c, k, acc) ==
    IF k > Len(g) THEN acc ELSE FloatSum(g, c, k + 1, DblAdd(acc, g[k][c]))

\* q is the arithmetic mean of column c over rows g, by floating-point
\* summation: the rows summed as they stand in the table or backwards,
\* and the sum divided by their number
IsMeanOf(q, g, c) ==
    \/ q = DblDivInt(FloatSum(g, c, 1, <<>>), Len(g))
    \/ q = DblDivInt(FloatSum(Reverse(g), c, 1, <<>>), Len(g))

\* C15: for every sensor in the statistics of either handler and each of
\* the four metrics, min, max and avg are the minimum, the maximum and the
\* arithmetic mean of that metric's column over the table's rows of that
\* sensor.
C15_MinMaxMean ==
    \A j \in Invs : HasStats(j) =>
        \A n \in 1 .. Len(inv[j].body.data) :
            LET d == inv[j].body.data[n]
                g == SelectSeq(store, LAMBDA row : row.SensorId = d.sensor_id)
            IN  /\ IsMinOf(d.temperature_min, g, "Temperature")
                /\ IsMaxOf(d.temperature_max, g, "Temperature")
                /\ IsMeanOf(d.temperature_avg, g, "Temperature")
                /\ IsMinOf(d.wind_min, g, "WindSpeed")
                /\ IsMaxOf(d.wind_max, g, "WindSpeed")
                /\ IsMeanOf(d.wind_avg, g, "WindSpeed")
                /\ IsMinOf(d.humidity_min, g, "Humidity")
                /\ IsMaxOf(d.humidity_max, g, "Humidity")
                /\ IsMeanOf(d.humidity_avg, g, "Humidity")
                /\ IsMinOf(d.co2_min, g, "CO2")
                /\ IsMaxOf(d.co2_max, g, "CO2")
                /\ IsMeanOf(d.co2_avg, g, "CO2")

\* C15 witness: the table holds temperatures 10, 12 and 14 of sensor 1,
\* and stats_http has returned min 10, max 14, avg 12 for it.
C15_Witness ==
    \E j \in Invs :
        /\ HasStats(j) /\ inv[j].kind = "stats_http"
        /\ Len(store) = 3
        /\ \A k \in 1 .. 3 : store[k].SensorId = 1
        /\ {store[k].Temperature : k \in 1 .. 3} = {Lit(10), Lit(12), Lit(14)}
        /\ Len(inv[j].body.data) = 1
        /\ inv[j].body.data[1].temperature_min = Lit(10)
        /\ inv[j].body.data[1].temperature_max = Lit(14)
        /\ inv[j].body.data[1].temperature_avg = Lit(12)

\* C15 witness of a mean that is rounded: temperatures 10, 10 and 12 of
\* one sensor, whose mean 32/3 is no double; the average returned is the
\* double next to it.
C15_Fraction ==
    \E j \in Invs :
        /\ HasStats(j)
        /\ Len(inv[j].body.data) = 1
        /\ inv[j].body.data[1].temperature_avg = DblDivInt(Lit(32), 3)
        /\ BigMulInt(inv[j].body.data[1].temperature_avg, 3) # Lit(32)

\* the timestamp a string of decimal digits denotes
RECURSIVE fromisoformat(_)
fromisoformat(ds) ==
    IF Len(ds) = 1 THEN ds[1]
    ELSE 10 * fromisoformat(SubSeq(ds, 1, Len(ds) - 1)) + ds[Len(ds)]

\* C16: a generate_http that has returned 200 has committed; inserted in
\* its response is the number of rows of its batch in the table, 20; the
\* readings echoed are the rows stored, field by field and in order; the
\* timestamp echoed denotes the stored timestamp of each row of the batch.
\* A generate_http that failed at an INSERT or at the commit has not
\* returned 200.
C16_OkOnlyAfterCommit ==
    \A i \in Invs : (inv[i].kind = "generate_http" /\ IsDone(i)) =>
        /\ inv[i].status = 200 =>
              LET b == BatchOf(store, i)
                  e == inv[i].body.readings
              IN  /\ \E n \in 1 .. Len(committed) : committed[n] = i
                  /\ inv[i].body.inserted = Len(b)
                  /\ inv[i].body.inserted = num_sensors
                  /\ Len(e) = Len(b)
                  /\ \A n \in 1 .. Len(b) :
                        /\ e[n].sensor_id = b[n].SensorId
                        /\ e[n].temperature = b[n].Temperature
                        /\ e[n].wind = b[n].WindSpeed
                        /\ e[n].humidity = b[n].Humidity
                        /\ e[n].co2 = b[n].CO2
                        /\ fromisoformat(inv[i].body.timestamp) = b[n].ReadingTimeUtc
        /\ inv[i].fault \in {"insert", "commit"} => inv[i].status # 200

\* C16 witness: one generate_http has returned 200 and another, which
\* failed at its commit, has returned 500.
C16_Witness ==
    \E i, j \in Invs :
        /\ inv[i].kind = "generate_http" /\ IsDone(i) /\ inv[i].status = 200
        /\ inv[j].kind = "generate_http" /\ IsDone(j) /\ inv[j].fault = "commit"
        /\ inv[j].status = 500

\* the rows of the table that are of sensor sid
RowsOfSensor(tbl, sid) == Len(SelectSeq(tbl, LAMBDA row : row.SensorId = sid))

\* C17: balanced sensors.  In every state the table holds, of each sensor
\* 1 .. 20, as many rows as batches have been committed; its row count is a
\* multiple of 20; and statistics returned or logged have 0 or 20 entries.
C17_BalancedSensors ==
    /\ \A sid \in 1 .. num_sensors : RowsOfSensor(store, sid) = Len(committed)
    /\ Len(store) % num_sensors = 0
    /\ \A j \in Invs : HasStats(j) => Len(inv[j].body.data) \in {0, num_sensors}

\* C17 witness: an ingestion failed at an INSERT after part of its batch and
\* has returned, and a statistics invocation made after it has produced
\* statistics of 20 sensors.
C17_Witness ==
    \E i, j \in Invs :
        /\ i < j
        /\ IsIngest(i) /\ IsDone(i) /\ inv[i].fault = "insert"
        /\ HasStats(j) /\ Len(inv[j].body.data) = num_sensors
        /\ Len(store) > 0

\* no change notification is pending and no recompute is running
Quiescent ==
    /\ notifications = 0
    /\ \A i \in Invs :
          inv[i].kind = "stats_sql_trigger" => inv[i].pc \in {"idle", "done"}

\* C18: change notifications do not cascade.  No step of stats_sql_trigger
\* raises a change notification, and, ingestions being finitely many, the
\* system comes to rest with no change notification pending and no
\* recompute running.
C18_NoCascade ==
    /\ [][\A i \in Invs :
            (StepOf(i) /\ inv'[i].kind = "stats_sql_trigger") =>
                notifications' <= notifications]_vars
    /\ <>[]Quiescent

\* C18 witness: the recompute for a batch committed in this run has
\* finished, having seen the batch, and nothing is pending or running.
C18_Witness ==
    /\ Quiescent
    /\ quota = 0
    /\ Len(committed) > PriorBatches
    /\ \A i \in Invs : inv[i].pc \in {"idle", "done"}
    /\ \E i \in Invs :
          /\ inv[i].kind = "stats_sql_trigger" /\ inv[i].log = "stats"
          /\ inv[i].seen = Len(committed)

\* the tasks whose request was answered with HTTP 200
Answered200 ==
    {n \in 1 .. Len(test.tasks) :
        test.tasks[n].outcome.kind = "response" /\ test.tasks[n].outcome.status = 200}

\* C19, in every state: no call of call_function raises and the test does
\* not crash; when run_test has returned for a level, results holds one
\* label per call in task order, num_calls of them; success_count and
\* fail_count add up to num_calls; and total_successful_readings is 20 times
\* success_count, the number of calls answered with HTTP 200.
C19_RunTestCounts ==
    /\ test.pc # "crashed"
    /\ \A n \in 1 .. Len(test.tasks) : test.tasks[n].pc # "raised"
    /\ test.pc = "sleep" =>
          /\ Len(test.results) = WORKLOADS[test.level]
          /\ test.metrics.num_calls = WORKLOADS[test.level]
          /\ \A n \in 1 .. Len(test.results) :
                /\ test.tasks[n].pc = "returned"
                /\ test.results[n] = test.tasks[n].label
                /\ test.results[n] # <<>>
          /\ test.metrics.success_count + test.metrics.fail_count = test.metrics.num_calls
          /\ test.metrics.success_count = Cardinality(Answered200)
          /\ test.metrics.fail_count = Len(test.tasks) - Cardinality(Answered200)
          /\ test.metrics.total_successful_readings = 20 * Cardinality(Answered200)

\* C19: the load test's counts are right at every level (above), and the
\* levels run strictly one after another: the test moves to a level only
\* from the level before it, when every call of that level has returned.
C19_LoadTest ==
    /\ []C19_RunTestCounts
    /\ [][test'.level # test.level =>
            /\ test'.level = test.level + 1
            /\ \A n \in 1 .. Len(test.tasks) : test.tasks[n].pc = "returned"
            /\ Len(test.tasks) = WORKLOADS[test.level]]_vars

\* C19 witness: at the second level run_test has returned after its two
\* calls, which were awaited at the same time, came to different ends, one of
\* them HTTP 200; the level before is in the summary, with its one call
\* failed.
C19_Witness ==
    /\ test.pc = "sleep"
    /\ test.level = 2
    /\ Len(test.summary) = 2
    /\ test.summary[1].fail_count = 1
    /\ test.metrics.success_count = 1
    /\ test.metrics.total_successful_readings = 20
    /\ test.results[1] = <<"Fail_Timeout">>
    /\ test.results[2] = <<"Success">>

\* C19 witness of concurrency within a level: every call of the second
\* level is awaiting its response.
C19_Concurrent ==
    /\ test.pc = "gather"
    /\ test.level = 2
    /\ \A n \in 1 .. Len(test.tasks) : test.tasks[n].pc = "awaiting"

====
